---- MODULE Spec2Model ----
(***************************************************************************)
(* Model of the LIDAR-Lite v3HP MicroPython driver (class V3HP of          *)
(* lidarLitev3hp.py) together with the I2C device it talks to.             *)
(*                                                                         *)
(* The driver is single-threaded and blocking.  Every bus transaction the  *)
(* driver issues (one i2c.writeto_mem or i2c.readfrom_mem call) is one     *)
(* step of the model; pc names the transaction the driver issues next.     *)
(* The device is the environment: it stores what is written to it, starts  *)
(* an acquisition when register 0x00 is written and finishes it at a time  *)
(* of its own choosing.  Any transaction may fail on the bus (OSError),    *)
(* which unwinds the call in progress.                                     *)
(*                                                                         *)
(* The field self.busy_counter (line 37) is assigned once and never read   *)
(* or written again (wait_for_busy counts in a local of the same name); it *)
(* is left out of the state.                                               *)
(***************************************************************************)
EXTENDS Integers, Sequences, FiniteSets, TLC

VARIABLES
    \* fields of the V3HP instance
    address, sig_count_max, acq_config_reg, ref_count_max, threshold_bypass,
    \* the call in progress: method, position, arguments, locals
    op, pc, mode, new_address, disable_default,
    busy_counter, databytes, saved_acq_config_reg, refCountMax,
    \* outcome of the last call: return value (None is -1) and exception raised
    ret, err,
    \* the device: register file, busy flag, kind of device ("free" finishes
    \* an acquisition at any time, "prompt" before the next status read, "paced"
    \* not before the transaction that follows the trigger and within the polls
    \* one wait_for_busy makes)
    mem, busy, devKind,
    \* whose acquisition is in progress / in the distance registers / was returned
    acqOwner, distOwner, retOwner,
    \* observers: transactions and sleeps of the current call, status reads of the
    \* current poll round, request logs of ranging calls against a prompt device,
    \* the instance and the device's configuration registers as the call began
    log, polls, last, pre

fields == <<address, sig_count_max, acq_config_reg, ref_count_max, threshold_bypass>>
mirror == <<sig_count_max, acq_config_reg, ref_count_max, threshold_bypass>>
cargs  == <<mode, new_address, disable_default>>
locals == <<busy_counter, databytes, saved_acq_config_reg, refCountMax>>
owners == <<acqOwner, distOwner, retOwner>>
vars   == <<address, sig_count_max, acq_config_reg, ref_count_max, threshold_bypass,
            op, pc, mode, new_address, disable_default,
            busy_counter, databytes, saved_acq_config_reg, refCountMax,
            ret, err, mem, busy, devKind, acqOwner, distOwner, retOwner,
            log, polls, last, pre>>

-----------------------------------------------------------------------------
(* Python integer operators on non-negative integers *)

RECURSIVE BitOr(_, _)
BitOr(a, b) ==
    IF a = 0 THEN b
    ELSE IF b = 0 THEN a
    ELSE (IF a % 2 = 1 \/ b % 2 = 1 THEN 1 ELSE 0) + 2 * BitOr(a \div 2, b \div 2)

RECURSIVE BitAnd(_, _)
BitAnd(a, b) ==
    IF a = 0 \/ b = 0 THEN 0
    ELSE (IF a % 2 = 1 /\ b % 2 = 1 THEN 1 ELSE 0) + 2 * BitAnd(a \div 2, b \div 2)

ShiftLeft(a, n) == a * 2^n

\* bytes([...]) and bytearray item assignment accept only 0..255
IsByte(v) == v \in 0..255

None == -1

-----------------------------------------------------------------------------
(* The configuration table of __init__ *)

configurations ==
    [m \in 0..6 |->
        CASE m = 0 -> [sig_count_max |-> \h80, acq_config_reg |-> \h08,
                       ref_count_max |-> \h05, threshold_bypass |-> \h00]
          [] m = 1 -> [sig_count_max |-> \h1d, acq_config_reg |-> \h08,
                       ref_count_max |-> \h03, threshold_bypass |-> \h03]
          [] m = 2 -> [sig_count_max |-> \h80, acq_config_reg |-> \h00,
                       ref_count_max |-> \h03, threshold_bypass |-> \h00]
          [] m = 3 -> [sig_count_max |-> \hff, acq_config_reg |-> \h08,
                       ref_count_max |-> \h05, threshold_bypass |-> \h00]
          [] m = 4 -> [sig_count_max |-> \h80, acq_config_reg |-> \h08,
                       ref_count_max |-> \h05, threshold_bypass |-> \h00]
          [] m = 5 -> [sig_count_max |-> \h80, acq_config_reg |-> \h08,
                       ref_count_max |-> \h05, threshold_bypass |-> \hb0]
          [] m = 6 -> [sig_count_max |-> \h04, acq_config_reg |-> \h01,
                       ref_count_max |-> \h03, threshold_bypass |-> \h00]]

\* the address the constructor takes by default
DefaultAddress == \h62

-----------------------------------------------------------------------------
(* Inputs the callers are given to choose from *)

\* profile ids passed to __init__ and configure: the table's keys and two others
ModeArgs == 0..6 \cup {7, 9}

\* addresses passed to change_i2c_address; \h80 does not fit in seven bits
AddressArgs == {\h70, \h10, \h80}

\* addresses passed to the constructor
ConstructAddressArgs == {\h62, \h64}

\* the factory unit id in registers 0x16, 0x17
UnitId == <<\h5a, \hc3>>

\* contents of register 0x1e a device may start with
AddressFlagsAtStart == {\h00, \h01}

\* distance register contents the device may produce
DistPairs == {<<\h01, \h2c>>, <<\hff, \hff>>}

\* the bits of status register 0x01 above the busy bit, as a read may return them
StatusHighBits == {\h00, \h20}

-----------------------------------------------------------------------------
(* The log of a call: bus transactions and sleeps, in the order issued.    *)
(*  k   "W" writeto_mem, "R" readfrom_mem, "S" sleep_us,                   *)
(*      "P" one poll round: the run of 1-byte reads of register 0x01 that   *)
(*          one wait_for_busy call issues                                  *)
(*  a   device address used, r register, n number of bytes,                *)
(*  d   bytes written or read (for "S" the microseconds)                   *)
(*  res "ok", "fail" (the transaction raised OSError); for "P": "first"    *)
(*      (idle on the first read), "idle" (idle after busy reads), "cap"    *)
(*      (gave up)                                                          *)
(*  "X" stands for a transaction of either kind that failed on the bus     *)

Entry(k, a, r, n, d, res) ==
    [k |-> k, a |-> a, r |-> r, n |-> n, d |-> d, res |-> res]
W(a, r, d) == Entry("W", a, r, Len(d), d, "ok")
R(a, r, n) == Entry("R", a, r, n, <<>>, "ok")
P(a, res)  == Entry("P", a, \h01, 1, <<>>, res)
S(us)      == Entry("S", 0, 0, 0, <<us>>, "ok")

\* a transaction the bus failed (NACK, timeout): i2c raised OSError
X(a)       == Entry("X", a, 0, 0, <<>>, "fail")

IsBus(e) == e.k # "S"
\* the bus transactions of a log
Bus(l) == SelectSeq(l, IsBus)

\* what the driver asked of the bus: the transactions without the bytes read
Asked(l) == [i \in 1..Len(Bus(l)) |->
                IF Bus(l)[i].k = "R" THEN [Bus(l)[i] EXCEPT !.d = <<>>] ELSE Bus(l)[i]]

-----------------------------------------------------------------------------
(* The device's register file *)

DevRegs == {\h02, \h04, \h0f, \h10, \h12, \h16, \h17, \h18, \h19, \h1a, \h1b,
            \h1c, \h1e}

\* a block write stores byte i of the payload at register reg + i - 1
DevStore(m, reg, data) ==
    [x \in DOMAIN m |->
        IF x >= reg /\ x < reg + Len(data) THEN data[x - reg + 1] ELSE m[x]]

\* a block read of n bytes starting at reg
DevLoad(m, reg, n) == [i \in 1..n |-> m[reg + i - 1]]

\* the registers the driver's configuring methods write
ConfigRegs == {\h02, \h04, \h12, \h1c, \h1e}

-----------------------------------------------------------------------------
(* Calls, returns and exceptions *)

\* what a call finds as it begins: the configuration registers and the fields
Snapshot == [regs |-> [x \in ConfigRegs |-> mem[x]],
             address |-> address,
             mirror |-> mirror]

Age(o) == CASE o = "cur" -> "prev" [] o = "prev" -> "old" [] OTHER -> o

\* a caller invokes method name on the constructed instance
Enter(name) ==
    /\ pc = "idle"
    /\ op' = name
    /\ log' = <<>>
    /\ polls' = 0
    /\ pre' = Snapshot
    /\ acqOwner' = Age(acqOwner)
    /\ distOwner' = Age(distOwner)
    /\ retOwner' = "none"

\* the body of the method entered is under way, at next
Proceed(next) ==
    /\ pc' = next
    /\ err' = "none"
    /\ ret' = None

\* the call in progress moves on to next
Goto(next) ==
    /\ pc' = next
    /\ UNCHANGED <<op, err, ret>>

ClearLocals ==
    /\ busy_counter' = 0
    /\ databytes' = <<>>
    /\ saved_acq_config_reg' = 0
    /\ refCountMax' = 0

\* method name returns v to its caller; log' is set by the step that returns
Return(name, v) ==
    /\ pc' = "idle"
    /\ ret' = v
    /\ err' = "none"
    /\ ClearLocals
    /\ last' = IF devKind # "free" /\ name \in DOMAIN last
               THEN [last EXCEPT ![name] = Asked(log')]
               ELSE last

\* exception e leaves method name and reaches its caller; a constructor that
\* raises yields no instance
Raise(name, e) ==
    /\ pc' = IF name = "__init__" THEN "new" ELSE "idle"
    /\ err' = e
    /\ ret' = None
    /\ ClearLocals
    /\ UNCHANGED last

-----------------------------------------------------------------------------
(* write and read, the wrappers of i2c.writeto_mem and i2c.readfrom_mem *)

\* mutant: write without the sleep
writeNoSleep(register, value) ==
    /\ mem' = DevStore(mem, register, value)
    /\ log' = Append(log, W(address, register, value))

\* write(register, value): the bus write, then sleep_us(10)
write(register, value) ==
    /\ mem' = DevStore(mem, register, value)
    /\ log' = log \o <<W(address, register, value), S(10)>>

\* read(register, bytes): the bytes the device returns
read(register, bytes) == DevLoad(mem, register, bytes)

\* the log after read(register, bytes)
readLogged(register, bytes) ==
    Append(log, [R(address, register, bytes) EXCEPT !.d = read(register, bytes)])

-----------------------------------------------------------------------------
(* __init__ and configure *)

\* mutant: only the first field is assigned before the writes
ConfigureAssignFirstOnly(m) ==
    /\ sig_count_max' = configurations[m].sig_count_max
    /\ UNCHANGED <<acq_config_reg, ref_count_max, threshold_bypass>>

\* lines 100-103 of configure(m): the four assignments from configurations[m]
ConfigureAssign(m) ==
    /\ sig_count_max' = configurations[m].sig_count_max
    /\ acq_config_reg' = configurations[m].acq_config_reg
    /\ ref_count_max' = configurations[m].ref_count_max
    /\ threshold_bypass' = configurations[m].threshold_bypass

\* V3HP(m, i2c, a): the settling sleep, the fields, then configure(m); the
\* lookup of an unknown m raises KeyError before the first assignment of line 100
Construct(m, a) ==
    /\ pc = "new"
    /\ op' = "__init__"
    /\ mode' = m
    /\ address' = a
    /\ log' = <<S(80)>>
    /\ polls' = 0
    /\ pre' = Snapshot
    /\ IF m \in DOMAIN configurations
       THEN /\ ConfigureAssign(m)
            /\ Proceed("cfg_w02")
            /\ UNCHANGED <<locals, last>>
       ELSE /\ sig_count_max' = \h80
            /\ acq_config_reg' = \h08
            /\ ref_count_max' = \h05
            /\ threshold_bypass' = \h00
            /\ Raise("__init__", "KeyError")
    /\ UNCHANGED <<new_address, disable_default, mem, busy, devKind, owners>>

\* mutant: an unknown profile id falls back to profile 0
ConfigureFallback(m) ==
    /\ Enter("configure")
    /\ mode' = m
    /\ ConfigureAssign(IF m \in DOMAIN configurations THEN m ELSE 0)
    /\ Proceed("cfg_w02")
    /\ UNCHANGED <<locals, last>>
    /\ UNCHANGED <<address, new_address, disable_default, mem, busy, devKind>>

\* configure(m) called on the instance
Configure(m) ==
    /\ Enter("configure")
    /\ mode' = m
    /\ IF m \in DOMAIN configurations
       THEN /\ ConfigureAssign(m)
            /\ Proceed("cfg_w02")
            /\ UNCHANGED <<locals, last>>
       ELSE /\ Raise("configure", "KeyError")
            /\ UNCHANGED mirror
    /\ UNCHANGED <<address, new_address, disable_default, mem, busy, devKind>>

\* line 105
ConfigureWrite02 ==
    /\ pc = "cfg_w02"
    /\ write(\h02, <<sig_count_max>>)
    /\ Goto("cfg_w04")
    /\ UNCHANGED <<fields, cargs, locals, polls, last, busy, devKind, owners, pre>>

\* line 106
ConfigureWrite04 ==
    /\ pc = "cfg_w04"
    /\ write(\h04, <<acq_config_reg>>)
    /\ Goto("cfg_w12")
    /\ UNCHANGED <<fields, cargs, locals, polls, last, busy, devKind, owners, pre>>

\* mutant: ref_count_max written to the neighbouring register
ConfigureWrite12WrongRegister ==
    /\ pc = "cfg_w12"
    /\ write(\h11, <<ref_count_max>>)
    /\ Goto("cfg_w1c")
    /\ UNCHANGED <<fields, cargs, locals, polls, last, busy, devKind, owners, pre>>

\* line 107
ConfigureWrite12 ==
    /\ pc = "cfg_w12"
    /\ write(\h12, <<ref_count_max>>)
    /\ Goto("cfg_w1c")
    /\ UNCHANGED <<fields, cargs, locals, polls, last, busy, devKind, owners, pre>>

\* line 108, and the return of configure (and of __init__ when it called)
ConfigureWrite1c ==
    /\ pc = "cfg_w1c"
    /\ write(\h1c, <<threshold_bypass>>)
    /\ Return(op, None)
    /\ UNCHANGED <<op, fields, cargs, polls, busy, devKind, owners, pre>>

-----------------------------------------------------------------------------
(* Ranging: wait_for_busy, take_range, read_distance, range, range_fast *)

\* mutant: the comparison of line 163 off by one
BusyCounterLimitOffByOne == 9999 + 1

\* line 163: the poll loop gives up once busy_counter > 9999
BusyCounterLimit == 9999

\* mutant: range() triggers only after both waits
RangeStepsTriggerLate == <<"wfb1", "wfb2", "trig", "rd">>

\* mutant: range() without the wait between trigger and read
RangeStepsNoSecondWait == <<"wfb1", "trig", "rd">>

\* lines 218-221, the body of range()
RangeSteps == <<"wfb1", "trig", "wfb2", "rd">>

\* mutant: range_fast() waiting for the acquisition like range()
RangeFastStepsSecondWait == <<"wfb1", "trig", "wfb2", "rd">>

\* mutant: range_fast() triggers without waiting for an idle device
RangeFastStepsNoFirstWait == <<"trig", "rd">>

\* lines 230-232, the body of range_fast()
RangeFastSteps == <<"wfb1", "trig", "rd">>

\* the steps of the ranging method running (reset_reference_filter calls range())
Body(name) ==
    CASE name = "range" -> RangeSteps
      [] name = "range_fast" -> RangeFastSteps
      [] name = "reset_reference_filter" -> RangeSteps
      [] name = "wait_for_busy" -> <<"wfb1">>
      [] name = "take_range" -> <<"trig">>
      [] name = "read_distance" -> <<"rd">>
      [] OTHER -> <<>>

\* the step after here in the body of name, "ret" after the last
After(name, here) ==
    LET b == Body(name)
        i == CHOOSE j \in 1..Len(b) : b[j] = here
    IN  IF i = Len(b) THEN "ret" ELSE b[i + 1]

RangingMethods == {"range", "range_fast", "wait_for_busy", "take_range", "read_distance"}

\* a caller invokes one of the ranging methods
CallRanging(name) ==
    /\ Enter(name)
    /\ Proceed(Body(name)[1])
    /\ UNCHANGED <<fields, cargs, locals, last, mem, busy, devKind>>

\* a prompt device has finished its acquisition before a status read arrives;
\* a paced one before the read at which wait_for_busy would give up
DeviceAnswersStatus ==
    /\ devKind = "prompt" => busy = 0
    /\ devKind = "paced" /\ busy_counter + 1 > BusyCounterLimit => busy = 0

\* the byte the device returns for status register 0x01: bit 0 is the busy flag
StatusByte(hi) == BitOr(hi, busy)

\* get_busy_flag (lines 171-172) on the byte read from register 0x01
get_busy_flag(busy_flag) == BitAnd(busy_flag, \h01)

\* the result of a poll round that ends with get_busy_flag returning flag
RoundResult(flag) ==
    IF flag = 1 THEN "cap" ELSE IF polls = 0 THEN "first" ELSE "idle"

\* one pass of the while loop of wait_for_busy (lines 160-165): one status
\* read; on a busy flag the counter is incremented and compared with 9999
WaitForBusy(here) ==
    /\ pc = here
    /\ DeviceAnswersStatus
    /\ polls' = polls + 1
    /\ \E hi \in StatusHighBits :
         LET flag == get_busy_flag(StatusByte(hi)) IN
         IF flag = 1 /\ ~(busy_counter + 1 > BusyCounterLimit)
         THEN \* busy: loop again
              /\ busy_counter' = busy_counter + 1
              /\ Goto(here)
              /\ UNCHANGED <<log, databytes, saved_acq_config_reg, refCountMax, last>>
         ELSE \* idle, or "giving up on busy flag": wait_for_busy returns
              /\ log' = Append(log, P(address, RoundResult(flag)))
              /\ IF After(op, here) = "ret"
                 THEN /\ Return(op, None)
                      /\ UNCHANGED op
                 ELSE /\ Goto(After(op, here))
                      /\ busy_counter' = 0
                      /\ UNCHANGED <<databytes, saved_acq_config_reg, refCountMax, last>>
    /\ UNCHANGED <<fields, cargs, mem, busy, devKind, owners, pre>>

\* the wait_for_busy() before the trigger (lines 218, 230)
WaitForBusy1 == WaitForBusy("wfb1")

\* the wait_for_busy() after the trigger (line 220)
WaitForBusy2 == WaitForBusy("wfb2")

\* what a trigger does to a device: an idle device starts the caller's
\* acquisition; a busy one either restarts for the caller or ignores the write
Triggered(restart) ==
    /\ busy' = 1
    /\ acqOwner' = IF busy = 0 \/ restart THEN "cur" ELSE acqOwner

\* mutant: the trigger byte goes to register 0x04
TakeRangeWrongRegister ==
    /\ pc = "trig"
    /\ write(\h04, <<\h01>>)
    /\ \E restart \in BOOLEAN : Triggered(restart)
    /\ polls' = 0
    /\ IF After(op, "trig") = "ret"
       THEN /\ Return(op, None)
            /\ UNCHANGED op
       ELSE /\ Goto(After(op, "trig"))
            /\ UNCHANGED <<locals, last>>
    /\ UNCHANGED <<fields, cargs, devKind, distOwner, retOwner, pre>>

\* take_range (line 156): write 0x01 to register 0x00
TakeRange ==
    /\ pc = "trig"
    /\ write(\h00, <<\h01>>)
    /\ \E restart \in BOOLEAN : Triggered(restart)
    /\ polls' = 0
    /\ IF After(op, "trig") = "ret"
       THEN /\ Return(op, None)
            /\ UNCHANGED op
       ELSE /\ Goto(After(op, "trig"))
            /\ UNCHANGED <<locals, last>>
    /\ UNCHANGED <<fields, cargs, devKind, distOwner, retOwner, pre>>

\* mutant: the two bytes combined low byte first
DistanceLowByteFirst(bytes) == BitOr(ShiftLeft(bytes[2], 8), bytes[1])

\* line 150: databytes[0] << 8 | databytes[1]
Distance(bytes) == BitOr(ShiftLeft(bytes[1], 8), bytes[2])

\* read_distance (lines 148-150); inside reset_reference_filter the value
\* range() returns is dropped and line 208 follows
ReadDistance ==
    /\ pc = "rd"
    /\ log' = readLogged(\h0f, 2)
    /\ retOwner' = distOwner
    /\ polls' = 0
    /\ IF op = "reset_reference_filter"
       THEN /\ Goto("rst_w12c")
            /\ databytes' = [databytes EXCEPT ![1] = refCountMax]
            /\ UNCHANGED <<busy_counter, saved_acq_config_reg, refCountMax, last>>
       ELSE /\ Return(op, Distance(read(\h0f, 2)))
            /\ UNCHANGED op
    /\ UNCHANGED <<fields, cargs, mem, busy, devKind, acqOwner, distOwner, pre>>

\* a paced device is still measuring when the transaction that follows the
\* trigger arrives
DeviceHolds ==
    /\ devKind = "paced"
    /\ \/ pc = "rd"
       \/ pc = "wfb2" /\ polls = 0

\* the device completes the acquisition in progress and stores its result
DeviceFinish ==
    /\ busy = 1
    /\ ~DeviceHolds
    /\ busy' = 0
    /\ \E d \in DistPairs : mem' = DevStore(mem, \h0f, d)
    /\ distOwner' = acqOwner
    /\ acqOwner' = "none"
    /\ UNCHANGED <<fields, op, pc, cargs, locals, ret, err, devKind, retOwner,
                   log, polls, last, pre>>

-----------------------------------------------------------------------------
(* change_i2c_address *)

\* change_i2c_address(a, dd) called on the instance
ChangeAddress(a, dd) ==
    /\ Enter("change_i2c_address")
    /\ new_address' = a
    /\ disable_default' = dd
    /\ Proceed("ca_r16")
    /\ UNCHANGED <<fields, mode, locals, last, mem, busy, devKind>>

\* line 123
ChangeAddressRead16 ==
    /\ pc = "ca_r16"
    /\ databytes' = read(\h16, 2)
    /\ log' = readLogged(\h16, 2)
    /\ Goto("ca_w18")
    /\ UNCHANGED <<fields, cargs, busy_counter, saved_acq_config_reg, refCountMax,
                   polls, last, mem, busy, devKind, owners, pre>>

\* lines 124-127: the write to 0x18, then databytes[0] = address << 1.  A
\* bytearray item cannot hold a value above 255: CPython raises ValueError,
\* MicroPython stores the low eight bits
ChangeAddressWrite18 ==
    /\ pc = "ca_w18"
    /\ write(\h18, databytes)
    /\ LET shifted == ShiftLeft(new_address, 1) IN
       \/ /\ IsByte(shifted)
          /\ databytes' = [databytes EXCEPT ![1] = shifted]
          /\ Goto("ca_w1a")
          /\ UNCHANGED <<busy_counter, saved_acq_config_reg, refCountMax, last>>
       \/ /\ ~IsByte(shifted)
          /\ databytes' = [databytes EXCEPT ![1] = shifted % 256]
          /\ Goto("ca_w1a")
          /\ UNCHANGED <<busy_counter, saved_acq_config_reg, refCountMax, last>>
       \/ /\ ~IsByte(shifted)
          /\ Raise(op, "ValueError")
          /\ UNCHANGED op
    /\ UNCHANGED <<fields, cargs, polls, busy, devKind, owners, pre>>

\* lines 128-130: the write to 0x1a, then self.address = address
ChangeAddressWrite1a ==
    /\ pc = "ca_w1a"
    /\ write(\h1a, databytes)
    /\ address' = new_address
    /\ Goto("ca_r1e")
    /\ UNCHANGED <<mirror, cargs, locals, polls, last, busy, devKind, owners, pre>>

\* mutant: the enable bit alone is written back, the bits read are dropped
ChangeAddressRead1eOverwrite ==
    /\ pc = "ca_r1e"
    /\ databytes' = <<ShiftLeft(1, 4)>>
    /\ log' = readLogged(\h1e, 1)
    /\ Goto("ca_w1e")
    /\ UNCHANGED <<fields, cargs, busy_counter, saved_acq_config_reg, refCountMax,
                   polls, last, mem, busy, devKind, owners, pre>>

\* lines 131-132
ChangeAddressRead1e ==
    /\ pc = "ca_r1e"
    /\ databytes' = <<BitOr(read(\h1e, 1)[1], ShiftLeft(1, 4))>>
    /\ log' = readLogged(\h1e, 1)
    /\ Goto("ca_w1e")
    /\ UNCHANGED <<fields, cargs, busy_counter, saved_acq_config_reg, refCountMax,
                   polls, last, mem, busy, devKind, owners, pre>>

\* mutant: disable_default is ignored
ChangeAddressWrite1eNoDisable ==
    /\ pc = "ca_w1e"
    /\ write(\h1e, databytes)
    /\ Return(op, None)
    /\ UNCHANGED <<op, fields, cargs, polls, busy, devKind, owners, pre>>

\* lines 133-135
ChangeAddressWrite1e ==
    /\ pc = "ca_w1e"
    /\ write(\h1e, databytes)
    /\ IF disable_default
       THEN /\ Goto("ca_r1e2")
            /\ UNCHANGED <<locals, last>>
       ELSE /\ Return(op, None)
            /\ UNCHANGED op
    /\ UNCHANGED <<fields, cargs, polls, busy, devKind, owners, pre>>

\* lines 136-137
ChangeAddressRead1eAgain ==
    /\ pc = "ca_r1e2"
    /\ databytes' = <<BitOr(read(\h1e, 1)[1], ShiftLeft(1, 3))>>
    /\ log' = readLogged(\h1e, 1)
    /\ Goto("ca_w1e2")
    /\ UNCHANGED <<fields, cargs, busy_counter, saved_acq_config_reg, refCountMax,
                   polls, last, mem, busy, devKind, owners, pre>>

\* line 138
ChangeAddressWrite1eAgain ==
    /\ pc = "ca_w1e2"
    /\ write(\h1e, databytes)
    /\ Return(op, None)
    /\ UNCHANGED <<op, fields, cargs, polls, busy, devKind, owners, pre>>

-----------------------------------------------------------------------------
(* reset_reference_filter *)

ResetReferenceFilter ==
    /\ Enter("reset_reference_filter")
    /\ Proceed("rst_r04")
    /\ UNCHANGED <<fields, cargs, locals, last, mem, busy, devKind>>

\* lines 196-198
ResetRead04 ==
    /\ pc = "rst_r04"
    /\ saved_acq_config_reg' = read(\h04, 1)[1]
    /\ databytes' = <<BitOr(read(\h04, 1)[1], \h10)>>
    /\ log' = readLogged(\h04, 1)
    /\ Goto("rst_w12a")
    /\ UNCHANGED <<fields, cargs, busy_counter, refCountMax, polls, last,
                   mem, busy, devKind, owners, pre>>

\* mutant: the byte with the disable-filter bit goes to register 0x04
ResetWrite12ConfigTo04 ==
    /\ pc = "rst_w12a"
    /\ write(\h04, databytes)
    /\ Goto("rst_r12")
    /\ UNCHANGED <<fields, cargs, locals, polls, last, busy, devKind, owners, pre>>

\* line 199
ResetWrite12Config ==
    /\ pc = "rst_w12a"
    /\ write(\h12, databytes)
    /\ Goto("rst_r12")
    /\ UNCHANGED <<fields, cargs, locals, polls, last, busy, devKind, owners, pre>>

\* lines 200-202
ResetRead12 ==
    /\ pc = "rst_r12"
    /\ refCountMax' = read(\h12, 1)[1]
    /\ databytes' = <<\hff>>
    /\ log' = readLogged(\h12, 1)
    /\ Goto("rst_w12b")
    /\ UNCHANGED <<fields, cargs, busy_counter, saved_acq_config_reg, polls, last,
                   mem, busy, devKind, owners, pre>>

\* lines 203-206: the write of 0xff, then self.range() is entered
ResetWrite12Overflow ==
    /\ pc = "rst_w12b"
    /\ write(\h12, databytes)
    /\ Goto(Body(op)[1])
    /\ UNCHANGED <<fields, cargs, locals, polls, last, busy, devKind, owners, pre>>

\* lines 209-210 (line 208 ran as range() returned)
ResetWrite12Restore ==
    /\ pc = "rst_w12c"
    /\ write(\h12, databytes)
    /\ databytes' = [databytes EXCEPT ![1] = saved_acq_config_reg]
    /\ Goto("rst_w04")
    /\ UNCHANGED <<fields, cargs, busy_counter, saved_acq_config_reg, refCountMax,
                   polls, last, busy, devKind, owners, pre>>

\* line 211
ResetWrite04Restore ==
    /\ pc = "rst_w04"
    /\ write(\h04, databytes)
    /\ Return(op, None)
    /\ UNCHANGED <<op, fields, cargs, polls, busy, devKind, owners, pre>>

-----------------------------------------------------------------------------
(* Bus failure *)

\* mutant: the failed transaction is issued again
BusFailRetry ==
    /\ pc \notin {"idle", "new"}
    /\ log' = Append(log, X(address))
    /\ polls' = 0
    /\ Goto(pc)
    /\ UNCHANGED <<fields, cargs, locals, last, mem, busy, devKind, owners, pre>>

\* the transaction the driver issues at pc fails: writeto_mem or readfrom_mem
\* raises OSError, which no method catches; the device is left as it was
BusFail ==
    /\ pc \notin {"idle", "new"}
    /\ log' = Append(log, X(address))
    /\ polls' = 0
    /\ Raise(op, "OSError")
    /\ UNCHANGED <<op, fields, cargs, mem, busy, devKind, owners, pre>>

-----------------------------------------------------------------------------
(* Initial states *)

\* the register file of a device after power-on
PowerOn(flags) ==
    [x \in DevRegs |->
        CASE x = \h02 -> \h80
          [] x = \h04 -> \h08
          [] x = \h12 -> \h05
          [] x = \h16 -> UnitId[1]
          [] x = \h17 -> UnitId[2]
          [] x = \h1e -> flags
          [] OTHER -> \h00]

\* no instance yet, a device of kind kind just powered on
NotConstructed(kind, flags) ==
    /\ address = 0 /\ sig_count_max = 0 /\ acq_config_reg = 0
    /\ ref_count_max = 0 /\ threshold_bypass = 0
    /\ op = "none" /\ pc = "new"
    /\ mode = 0 /\ new_address = 0 /\ disable_default = FALSE
    /\ busy_counter = 0 /\ databytes = <<>>
    /\ saved_acq_config_reg = 0 /\ refCountMax = 0
    /\ ret = None /\ err = "none"
    /\ mem = PowerOn(flags) /\ busy = 0 /\ devKind = kind
    /\ acqOwner = "none" /\ distOwner = "none" /\ retOwner = "none"
    /\ log = <<>> /\ polls = 0
    /\ last = [name \in {"range", "range_fast"} |-> <<>>]
    /\ pre = Snapshot

\* the state V3HP(m, i2c, a) returns in when no transaction fails and the
\* device's registers held regs before, but for the snapshot taken at entry
ConstructedOn(m, a, kind, regs) ==
    /\ address = a
    /\ sig_count_max = configurations[m].sig_count_max
    /\ acq_config_reg = configurations[m].acq_config_reg
    /\ ref_count_max = configurations[m].ref_count_max
    /\ threshold_bypass = configurations[m].threshold_bypass
    /\ op = "__init__" /\ pc = "idle"
    /\ mode = m /\ new_address = 0 /\ disable_default = FALSE
    /\ busy_counter = 0 /\ databytes = <<>>
    /\ saved_acq_config_reg = 0 /\ refCountMax = 0
    /\ ret = None /\ err = "none"
    /\ mem = [regs EXCEPT ![\h02] = configurations[m].sig_count_max,
                          ![\h04] = configurations[m].acq_config_reg,
                          ![\h12] = configurations[m].ref_count_max,
                          ![\h1c] = configurations[m].threshold_bypass]
    /\ busy = 0 /\ devKind = kind
    /\ acqOwner = "none" /\ distOwner = "none" /\ retOwner = "none"
    /\ log = <<S(80),
               W(a, \h02, <<configurations[m].sig_count_max>>), S(10),
               W(a, \h04, <<configurations[m].acq_config_reg>>), S(10),
               W(a, \h12, <<configurations[m].ref_count_max>>), S(10),
               W(a, \h1c, <<configurations[m].threshold_bypass>>), S(10)>>
    /\ polls = 0
    /\ last = [name \in {"range", "range_fast"} |-> <<>>]

\* the same on a device just powered on
ConstructedCore(m, a, kind, flags) == ConstructedOn(m, a, kind, PowerOn(flags))

\* the state the first V3HP(m, i2c, a) of a run returns in
Constructed(m, a, kind, flags) ==
    /\ ConstructedCore(m, a, kind, flags)
    /\ pre = [regs |-> [x \in ConfigRegs |-> PowerOn(flags)[x]],
              address |-> 0,
              mirror |-> <<0, 0, 0, 0>>]

\* example.py line 7: lidar = V3HP(1, i2c)
Init == Constructed(1, DefaultAddress, "free", \h00)

-----------------------------------------------------------------------------
(* Specifications *)

\* construction and configuration, starting before the constructor runs
InitConfig == NotConstructed("free", \h00)

NextConfig ==
    \/ \E m \in ModeArgs, a \in ConstructAddressArgs : Construct(m, a)
    \/ \E m \in ModeArgs : Configure(m)
    \/ ConfigureWrite02
    \/ ConfigureWrite04
    \/ ConfigureWrite12
    \/ ConfigureWrite1c
    \/ BusFail

SpecConfig == InitConfig /\ [][NextConfig]_vars

\* the initial states of the other specifications are what the constructor
\* of SpecConfig returns in: an invariant of SpecConfig
ConstructorReturnsConstructed ==
    op = "__init__" /\ pc = "idle" =>
        /\ ConstructedCore(mode, address, "free", \h00)
        /\ pre.regs = [x \in ConfigRegs |-> PowerOn(\h00)[x]] /\ pre.address = 0 =>
              Constructed(mode, address, "free", \h00)

\* ranging against a device that takes any time to finish
NextRange ==
    \/ \E name \in RangingMethods : CallRanging(name)
    \/ WaitForBusy1
    \/ TakeRange
    \/ WaitForBusy2
    \/ ReadDistance
    \/ DeviceFinish
    \/ BusFail

SpecRange == Init /\ [][NextRange]_vars

\* ranging against a device whose busy flag reads idle on the first poll
InitPrompt == Constructed(1, DefaultAddress, "prompt", \h00)

SpecPrompt == InitPrompt /\ [][NextRange]_vars

\* consecutive range_fast() calls against a paced device
InitPaced == Constructed(1, DefaultAddress, "paced", \h00)

NextPaced ==
    \/ CallRanging("range_fast")
    \/ WaitForBusy1
    \/ TakeRange
    \/ ReadDistance
    \/ DeviceFinish

SpecPaced == InitPaced /\ [][NextPaced]_vars

\* reading the distance from a device whose distance registers hold the
\* result of a measurement made before the instance was constructed
DistanceBytes == 0..255

DistanceMethods == {"read_distance", "range", "range_fast"}

InitDistance ==
    \E b0 \in DistanceBytes, b1 \in DistanceBytes :
        /\ ConstructedOn(1, DefaultAddress, "prompt",
                         DevStore(PowerOn(\h00), \h0f, <<b0, b1>>))
        /\ pre = [regs |-> [x \in ConfigRegs |-> PowerOn(\h00)[x]],
                  address |-> 0,
                  mirror |-> <<0, 0, 0, 0>>]

NextDistance ==
    \/ \E name \in DistanceMethods : CallRanging(name)
    \/ WaitForBusy1
    \/ TakeRange
    \/ WaitForBusy2
    \/ ReadDistance
    \/ DeviceFinish

SpecDistance == InitDistance /\ [][NextDistance]_vars

\* address reassignment
InitAddress == \E flags \in AddressFlagsAtStart :
                  Constructed(1, DefaultAddress, "free", flags)

NextAddress ==
    \/ \E a \in AddressArgs, dd \in BOOLEAN : ChangeAddress(a, dd)
    \/ ChangeAddressRead16
    \/ ChangeAddressWrite18
    \/ ChangeAddressWrite1a
    \/ ChangeAddressRead1e
    \/ ChangeAddressWrite1e
    \/ ChangeAddressRead1eAgain
    \/ ChangeAddressWrite1eAgain
    \/ BusFail

SpecAddress == InitAddress /\ [][NextAddress]_vars

\* the reference filter reset, on instances constructed in two profiles
InitReset == \E m \in {0, 6} : Constructed(m, DefaultAddress, "free", \h00)

NextReset ==
    \/ ResetReferenceFilter
    \/ ResetRead04
    \/ ResetWrite12Config
    \/ ResetRead12
    \/ ResetWrite12Overflow
    \/ WaitForBusy1
    \/ TakeRange
    \/ WaitForBusy2
    \/ ReadDistance
    \/ ResetWrite12Restore
    \/ ResetWrite04Restore
    \/ DeviceFinish
    \/ BusFail

SpecReset == InitReset /\ [][NextReset]_vars

\* every method in any order on one instance, against a prompt device and
\* without bus failures; the callers choose from fewer profiles and addresses
DriverModeArgs == {1, 6, 7}

DriverAddressArgs == {\h10}

DriverRangingMethods == {"range", "range_fast"}

InitDriver == NotConstructed("prompt", \h00)

NextDriver ==
    \/ \E m \in DriverModeArgs : Construct(m, DefaultAddress)
    \/ \E m \in DriverModeArgs : Configure(m)
    \/ ConfigureWrite02
    \/ ConfigureWrite04
    \/ ConfigureWrite12
    \/ ConfigureWrite1c
    \/ \E name \in DriverRangingMethods : CallRanging(name)
    \/ WaitForBusy1
    \/ TakeRange
    \/ WaitForBusy2
    \/ ReadDistance
    \/ DeviceFinish
    \/ \E a \in DriverAddressArgs, dd \in BOOLEAN : ChangeAddress(a, dd)
    \/ ChangeAddressRead16
    \/ ChangeAddressWrite18
    \/ ChangeAddressWrite1a
    \/ ChangeAddressRead1e
    \/ ChangeAddressWrite1e
    \/ ChangeAddressRead1eAgain
    \/ ChangeAddressWrite1eAgain
    \/ ResetReferenceFilter
    \/ ResetRead04
    \/ ResetWrite12Config
    \/ ResetRead12
    \/ ResetWrite12Overflow
    \/ ResetWrite12Restore
    \/ ResetWrite04Restore

SpecDriver == InitDriver /\ [][NextDriver]_vars

\* every method that uses the bus, each transaction of which may fail
FailModeArgs == {6}

NextFail ==
    \/ \E m \in FailModeArgs : Configure(m)
    \/ ConfigureWrite02
    \/ ConfigureWrite04
    \/ ConfigureWrite12
    \/ ConfigureWrite1c
    \/ \E name \in RangingMethods : CallRanging(name)
    \/ WaitForBusy1
    \/ TakeRange
    \/ WaitForBusy2
    \/ ReadDistance
    \/ DeviceFinish
    \/ \E a \in DriverAddressArgs, dd \in BOOLEAN : ChangeAddress(a, dd)
    \/ ChangeAddressRead16
    \/ ChangeAddressWrite18
    \/ ChangeAddressWrite1a
    \/ ChangeAddressRead1e
    \/ ChangeAddressWrite1e
    \/ ChangeAddressRead1eAgain
    \/ ChangeAddressWrite1eAgain
    \/ ResetReferenceFilter
    \/ ResetRead04
    \/ ResetWrite12Config
    \/ ResetRead12
    \/ ResetWrite12Overflow
    \/ ResetWrite12Restore
    \/ ResetWrite04Restore
    \/ BusFail

SpecFail == InitPrompt /\ [][NextFail]_vars

\* the reference filter reset against a prompt device
InitResetPrompt == \E m \in 0..6 : Constructed(m, DefaultAddress, "prompt", \h00)

SpecResetPrompt == InitResetPrompt /\ [][NextReset]_vars

Next == NextConfig \/ NextRange \/ NextAddress \/ NextReset

Spec == Init /\ [][Next]_vars

-----------------------------------------------------------------------------
(* Properties *)

\* the call of method name has returned normally
Completed(name) == op = name /\ pc = "idle" /\ err = "none"

\* the bus transactions of the current call that went through
Done == SelectSeq(Bus(log), LAMBDA e : e.res # "fail")

\* a poll round of wait_for_busy: reads of status register 0x01
IsPollRound(e) == e.k = "P" /\ e.r = 1 /\ e.n = 1 /\ e.a = address

\* transaction i of a range() call is the one the documented order puts there
RangeOrder(i, e) ==
    CASE i = 1 -> IsPollRound(e)
      [] i = 2 -> e.k = "W" /\ e.a = address /\ e.r = 0 /\ e.d = <<1>>
      [] i = 3 -> IsPollRound(e)
      [] i = 4 -> e.k = "R" /\ e.a = address /\ e.r = 15 /\ e.n = 2
      [] OTHER -> FALSE

\* C1: a range() call issues a poll round, the write of 0x01 to register 0x00,
\* a second poll round and one 2-byte read of register 0x0f, in this order and
\* nothing else: at every moment of the call the transactions issued so far
\* are the first ones of that sequence, and a call that returns without
\* bus failure has issued all four
C1_RangeOrder ==
    op = "range" =>
        /\ \A i \in 1..Len(Done) : RangeOrder(i, Done[i])
        /\ Completed("range") => Len(Done) = 4 /\ Done = Bus(log)

\* a range() call has returned after four transactions, the second poll round
\* having waited for the device
C1_Witness ==
    /\ Completed("range")
    /\ Len(Bus(log)) = 4
    /\ Bus(log)[3].res = "idle"

\* C2 as stated: whatever the device does, the value range() returns is the
\* result of the acquisition that call triggered, completed before the read
C2_AlwaysOwnAcquisition ==
    Completed("range") => retOwner = "cur"

\* C2 amended: when neither poll round of a range() call gave up at the cap,
\* the value returned is the result of the acquisition that call triggered,
\* and that acquisition had completed (busy clear) before the read
C2_OwnAcquisitionUnlessCap ==
    (/\ Completed("range")
     /\ Bus(log)[1].res # "cap"
     /\ Bus(log)[3].res # "cap") => retOwner = "cur" /\ busy = 0

\* a range() call returned its own acquisition's result after waiting for it
C2_Witness ==
    /\ Completed("range")
    /\ Bus(log)[1].res = "idle"
    /\ Bus(log)[3].res = "idle"
    /\ retOwner = "cur"
    /\ ret = 300

\* the poll round that has just ended was ended by the cap
JustGaveUp ==
    /\ polls > 0
    /\ pc \notin {"wfb1", "wfb2"}
    /\ Len(log) > 0
    /\ log[Len(log)] = P(address, "cap")

\* C3: wait_for_busy reads the status register at most 10,000 times; inside
\* the loop fewer than 10,000 reads have been made, so the 10,000th read ends
\* the round whatever it returns; a round that every read found busy ends
\* without an exception and the caller goes on: range() and range_fast() to
\* the trigger after the first round, range() to the distance read after the
\* second, and a direct wait_for_busy() call returns None
C3_PollBounded ==
    /\ polls <= 10000
    /\ pc \in {"wfb1", "wfb2"} => polls < 10000 /\ busy_counter = polls
    /\ JustGaveUp =>
          /\ polls = 10000
          /\ err = "none"
          /\ op = "wait_for_busy" => pc = "idle" /\ ret = None
          /\ op \in {"range", "range_fast"} /\ Len(Bus(log)) = 1 => pc = "trig"
          /\ op = "range" /\ Len(Bus(log)) = 3 => pc = "rd"

\* the second poll round of a range() call gave up after 10,000 busy reads
\* and the call is about to read the distance
C3_Witness ==
    /\ JustGaveUp
    /\ polls = 10000
    /\ op = "range"
    /\ pc = "rd"

\* the transactions C4 gives range_fast(): poll round, trigger, distance read
FastOrder(l) ==
    /\ Len(l) = 3
    /\ l[1] = P(DefaultAddress, "first")
    /\ l[2] = W(DefaultAddress, 0, <<1>>)
    /\ l[3] = R(DefaultAddress, 15, 2)

\* sequence l without its element i
Without(l, i) == SubSeq(l, 1, i - 1) \o SubSeq(l, i + 1, Len(l))

\* C4: against a device that reads idle on the first poll of every round, the
\* transactions of a completed range_fast() are poll round, trigger write,
\* distance read, and they are those of a completed range() with its third
\* transaction, the poll round between trigger and read, taken out
C4_FastSkipsSecondRound ==
    /\ last["range_fast"] # <<>> => FastOrder(last["range_fast"])
    /\ last["range"] # <<>> /\ last["range_fast"] # <<>> =>
          /\ Len(last["range"]) = 4
          /\ last["range"][3] = P(DefaultAddress, "first")
          /\ last["range_fast"] = Without(last["range"], 3)

\* both a range() and a range_fast() call have completed against the device
C4_Witness ==
    /\ devKind = "prompt"
    /\ last["range"] # <<>>
    /\ last["range_fast"] # <<>>

\* the profile table as the specification documents it
DocumentedProfile(id) ==
    CASE id = 0 -> <<128, 8, 5, 0>>
      [] id = 1 -> <<29, 8, 3, 3>>
      [] id = 2 -> <<128, 0, 3, 0>>
      [] id = 3 -> <<255, 8, 5, 0>>
      [] id = 4 -> <<128, 8, 5, 0>>
      [] id = 5 -> <<128, 8, 5, 176>>
      [] id = 6 -> <<4, 1, 3, 0>>

\* the registers of sig_count_max, acq_config_reg, ref_count_max, threshold_bypass
DocumentedRegister == <<2, 4, 18, 28>>

\* the keys of a profile row, in the same order
DocumentedField == <<"sig_count_max", "acq_config_reg", "ref_count_max", "threshold_bypass">>

\* C5: a configure(id) call with id in 0..6 that returns has issued exactly
\* four transactions, one-byte writes of the documented row to registers 0x02,
\* 0x04, 0x12, 0x1c in this order, and the four fields hold the same row
C5_ConfigureWrites ==
    Completed("configure") =>
        /\ mode \in 0..6
        /\ Len(Bus(log)) = 4
        /\ \A i \in 1..4 :
              Bus(log)[i] = W(address, DocumentedRegister[i], <<DocumentedProfile(mode)[i]>>)
        /\ mirror = DocumentedProfile(mode)

\* configure(5) has returned on an instance that was in another profile
C5_Witness ==
    /\ Completed("configure")
    /\ mode = 5
    /\ pre.mirror # DocumentedProfile(5)
    /\ mem[28] = 176

\* a call with a profile id outside 0..6 has ended
UnknownProfile ==
    /\ op \in {"configure", "__init__"}
    /\ mode \notin 0..6

ConfigureFailed == op = "configure" /\ pc = "idle" /\ err = "OSError"

\* C7 as stated: after a bus failure in configure(id), a field holds the new
\* profile's value exactly when its register write completed and its pre-call
\* value otherwise, so the fields match the device's registers
C7_MirrorFollowsWrites ==
    ConfigureFailed =>
        \A i \in 1..4 :
            /\ mirror[i] = IF i <= Len(Done) THEN DocumentedProfile(mode)[i]
                           ELSE pre.mirror[i]
            /\ mirror[i] = mem[DocumentedRegister[i]]

\* C7 amended: after a bus failure in configure(id), all four fields hold the
\* new profile's values, whichever writes completed; a register holds the new
\* value when its write completed and its pre-call content otherwise
C7_MirrorAssignedBeforeWrites ==
    ConfigureFailed =>
        /\ Len(Done) < 4
        /\ mirror = DocumentedProfile(mode)
        /\ \A i \in 1..4 :
              mem[DocumentedRegister[i]] =
                  IF i <= Len(Done) THEN DocumentedProfile(mode)[i]
                  ELSE pre.regs[DocumentedRegister[i]]

\* configure failed at its second write and the acq_config_reg field differs
\* from register 0x04
C7_Witness ==
    /\ ConfigureFailed
    /\ Len(Done) = 1
    /\ acq_config_reg # mem[4]
    /\ sig_count_max = mem[2]

\* the writes to register 0x1a among the transactions of the call
NewAddressWrites == SelectSeq(Bus(log), LAMBDA e : e.k = "W" /\ e.r = 26)

\* C8 as stated: a change_i2c_address call without bus failure issues 4
\* transactions, 6 with disable_default, and the first byte written to
\* register 0x1a is newAddress << 1
C8_FourOrSix ==
    Completed("change_i2c_address") =>
        /\ Len(Bus(log)) = IF disable_default THEN 6 ELSE 4
        /\ Len(NewAddressWrites) = 1
        /\ NewAddressWrites[1].d[1] = 2 * new_address

\* C8 amended: a change_i2c_address call that returns issues 5 transactions,
\* 7 with disable_default, one of them a write to register 0x1a, whose first
\* byte is newAddress << 1 when newAddress is a 7-bit address
C8_FiveOrSeven ==
    Completed("change_i2c_address") =>
        /\ Len(Bus(log)) = IF disable_default THEN 7 ELSE 5
        /\ Len(NewAddressWrites) = 1
        /\ new_address < 128 => NewAddressWrites[1].d[1] = 2 * new_address

\* change_i2c_address(0x70, True) has returned after seven transactions
C8_Witness ==
    /\ Completed("change_i2c_address")
    /\ disable_default
    /\ new_address = 112
    /\ Len(Bus(log)) = 7
    /\ Bus(log)[3].d[1] = 224

\* C9: in change_i2c_address the transactions of steps 1 to 4 (the first
\* five) go to the address the instance had before the call, those of step 5
\* to the new address, and the address field changes only once the fifth
\* transaction, the step-4 write to 0x1e, has gone through
C9_AddressSwitchesAfterStep4 ==
    op = "change_i2c_address" =>
        /\ \A i \in 1..Len(Bus(log)) :
              Bus(log)[i].a = IF i <= 5 THEN pre.address ELSE new_address
        /\ address # pre.address => Len(Done) >= 5

\* C10: after reset_reference_filter returns, registers 0x12 and 0x04 hold
\* what they held when the call began
C10_RegistersRestored ==
    Completed("reset_reference_filter") =>
        /\ mem[18] = pre.regs[18]
        /\ mem[4] = pre.regs[4]


\* C11: whenever no call is in progress, each of the four fields equals the
\* byte last written to its register (the device stores every byte written
\* and nothing else changes registers 0x02, 0x04, 0x12, 0x1c, so that byte is
\* the register's content), and the four form a row of the profile table
C11_MirrorEqualsLastWritten ==
    pc = "idle" =>
        /\ \A i \in 1..4 : mirror[i] = mem[DocumentedRegister[i]]
        /\ \E id \in 0..6 : mirror = DocumentedProfile(id)

\* the bus transactions of the current call that failed
Failed == SelectSeq(Bus(log), LAMBDA e : e.res = "fail")

\* C12: a bus failure ends the call: at most one transaction of a call fails,
\* it is the last entry of the call's log (no transaction and no sleep follow
\* it), the call is over and its caller has the OSError; an OSError reaches
\* the caller only this way
C12_FailurePropagates ==
    /\ Len(Failed) <= 1
    /\ Len(Failed) = 1 =>
          /\ log[Len(log)].res = "fail"
          /\ pc = "idle"
          /\ err = "OSError"
          /\ ret = None
    /\ err = "OSError" => Len(Failed) = 1

\* reset_reference_filter failed at its last write, after the range() inside
\* it had gone through
C12_Witness ==
    /\ op = "reset_reference_filter"
    /\ err = "OSError"
    /\ Len(Done) = 9
    /\ Len(Bus(log)) = 10


\* an earlier range_fast() call has returned
EarlierFast == last["range_fast"] # <<>>

\* at the distance read of a range_fast() call the device is busy with the
\* acquisition this call triggered, and after an earlier call the distance
\* registers hold the result of the acquisition the previous call triggered
FastReadsBehind ==
    /\ op = "range_fast" /\ pc = "rd" =>
          /\ busy = 1
          /\ acqOwner = "cur"
          /\ EarlierFast => distOwner = "prev"
    /\ Completed("range_fast") => retOwner # "cur"

\* the step in which a range_fast() call after the first returns: it returns
\* the previous call's result
FastReturnsPrevious ==
    op = "range_fast" /\ pc = "rd" /\ pc' = "idle" /\ EarlierFast =>
        /\ retOwner' = "prev"
        /\ ret' = Distance(read(\h0f, 2))

\* C13: in consecutive range_fast() calls against a paced device (busy for at
\* least the transaction after the trigger, idle within one poll round), every
\* call after the first returns the result of the acquisition the previous
\* call triggered, and no call returns the result of its own trigger
C13_OneBehind == []FastReadsBehind /\ [][FastReturnsPrevious]_vars

\* a range_fast() call has returned the previous call's result while its own
\* acquisition is still in progress
C13_Witness ==
    /\ Completed("range_fast")
    /\ retOwner = "prev"
    /\ acqOwner = "cur"
    /\ busy = 1
    /\ ret = 300


\* the reads of distance register 0x0f among the transactions of the call
DistanceReads == SelectSeq(Bus(log), LAMBDA e : e.k = "R" /\ e.r = 15)

BitSet(v, k) == (v \div 2^k) % 2 = 1

\* byte v with bit k set and the other bits kept
WithBit(v, k) == IF BitSet(v, k) THEN v ELSE v + 2^k

\* the device of C15 acknowledges address a: the default address until bit 3
\* of register 0x1e is set, the address stored (shifted) in register 0x1a only
\* once bit 4 of register 0x1e is set
Acknowledged(a) ==
    \/ a = DefaultAddress /\ ~BitSet(mem[30], 3)
    \/ 2 * a = mem[26] /\ BitSet(mem[30], 4)

\* C15: whenever the driver is about to issue a bus transaction, during
\* change_i2c_address or in a later call, the address it will use is one the
\* device acknowledges at that moment
C15_AddressedToAcknowledged ==
    pc \notin {"idle", "new"} => Acknowledged(address)

\* C16: when change_i2c_address is ended by a bus failure before its fifth
\* transaction, the step-4 write to register 0x1e, has gone through, the
\* address field holds its pre-call value
C16_AddressKeptOnEarlyFailure ==
    op = "change_i2c_address" /\ pc = "idle" /\ err = "OSError" /\ Len(Done) < 5 =>
        address = pre.address


\* transaction i of a reset_reference_filter() call is the one C17 puts
\* there, a being the byte read from register 0x04 at the start and l the
\* transactions so far
ResetOrder(i, l, a) ==
    LET e == l[i] IN
    CASE i = 1 -> e.k = "R" /\ e.r = 4 /\ e.n = 1
      [] i = 2 -> e = W(address, 18, <<WithBit(a, 4)>>)
      [] i = 3 -> e.k = "R" /\ e.r = 18 /\ e.n = 1
      [] i = 4 -> e = W(address, 18, <<255>>)
      [] i \in 5..8 -> RangeOrder(i - 4, e)
      [] i = 9 -> e.k = "W" /\ e.r = 18 /\ e.n = 1
      [] i = 10 -> e = W(address, 4, <<a>>)
      [] OTHER -> FALSE

\* the writes to register 0x04 among the transactions of the call
AcqConfigWrites == SelectSeq(Bus(log), LAMBDA e : e.k = "W" /\ e.r = 4)

FlagWritePositions ==
    {i \in 1..Len(Bus(log)) : Bus(log)[i].k = "W" /\ Bus(log)[i].r = 30}

\* C18: in change_i2c_address every write to register 0x1e is one byte, the
\* byte the read just before it returned with one more bit set: bit 4 in the
\* first, bit 3 in the second; register 0x1e holds its pre-call value, or that
\* with bit 4 set once the first write is through, or that with bits 4 and 3
\* set once the second is; a call that returns leaves the pre-call value OR
\* 0x10, with disable_default OR 0x18
C18_FlagsReadModifyWrite ==
    op = "change_i2c_address" =>
        LET l == Bus(log)
            v == pre.regs[30]
        IN  /\ \A i \in FlagWritePositions :
                  /\ i > 1
                  /\ l[i - 1].k = "R" /\ l[i - 1].r = 30 /\ l[i - 1].n = 1
                  /\ l[i].d = <<WithBit(l[i - 1].d[1], IF i = 5 THEN 4 ELSE 3)>>
            /\ FlagWritePositions \subseteq {5, 7}
            /\ mem[30] = CASE 7 \in FlagWritePositions -> WithBit(WithBit(v, 4), 3)
                           [] 5 \in FlagWritePositions -> WithBit(v, 4)
                           [] OTHER -> v
            /\ Completed("change_i2c_address") =>
                  FlagWritePositions = IF disable_default THEN {5, 7} ELSE {5}

\* change_i2c_address(a, True) has returned on a device whose register 0x1e
\* held 0x01: it now holds 0x19
C18_Witness ==
    /\ Completed("change_i2c_address")
    /\ disable_default
    /\ pre.regs[30] = 1
    /\ mem[30] = 25

\* the writes among the transactions of the call
Writes == SelectSeq(Bus(log), LAMBDA e : e.k = "W")

\* C19: a ranging call writes nothing but 0x01 to register 0x00: range() and
\* range_fast() once when they return, wait_for_busy() and read_distance()
\* never; the address and the four fields stay as the call found them and
\* registers 0x02, 0x04, 0x12, 0x1c keep the profile of the last configure
C19_RangingWritesTriggerOnly ==
    op \in RangingMethods =>
        LET w == Writes IN
        /\ \A i \in 1..Len(w) : w[i] = W(address, 0, <<1>>)
        /\ Len(w) <= 1
        /\ Completed("range") \/ Completed("range_fast") => Len(w) = 1
        /\ op \in {"wait_for_busy", "read_distance"} => Len(w) = 0
        /\ address = pre.address
        /\ mirror = pre.mirror
        /\ \A x \in ConfigRegs : mem[x] = pre.regs[x]
        /\ \A i \in 1..4 : mem[DocumentedRegister[i]] = configurations[mode][DocumentedField[i]]

\* range_fast() has returned after its one write, the trigger
C19_Witness ==
    /\ Completed("range_fast")
    /\ Len(Writes) = 1
    /\ mem[2] = 29

\* C20: in the log of every call a bus write is followed at once by the
\* sleep of 10 microseconds, a sleep stands only after a write or, as the
\* sleep of 80 microseconds, at the head of the constructor's log, so a read
\* is followed by no sleep and the constructor sleeps before its first
\* transaction
C20_SettleDelays ==
    /\ \A i \in 1..Len(log) :
          /\ log[i].k = "W" => i < Len(log) /\ log[i + 1] = S(10)
          /\ log[i].k = "S" =>
                IF i = 1 THEN op = "__init__" /\ log[i] = S(80)
                ELSE log[i - 1].k = "W" /\ log[i] = S(10)
    /\ op = "__init__" => Len(log) >= 1 /\ log[1] = S(80)

\* change_i2c_address(a, True) has returned: seven transactions, four of
\* them writes, four sleeps
C20_Witness ==
    /\ Completed("change_i2c_address")
    /\ Len(Bus(log)) = 7
    /\ Len(log) = 11
    /\ log[Len(log)] = S(10)

====
